---- MODULE Spec2Model ----
(***************************************************************************)
(* Model of extract_extant_script (src/src/main.rs): the driver            *)
(* species_tree_sample_to_string and the pruning functions it calls.       *)
(*                                                                         *)
(* Conventions.  Rust's usize indices 0..len-1 are the model's 1..Len:     *)
(* model index k is Rust index k-1, so the freshly flattened root is 1.    *)
(* Option<usize>::None is the index None (0).  Branch lengths and depths   *)
(* (f64) are integers; the only arithmetic on them is + and -.             *)
(* A recursive Node is a record whose left and right fields are an         *)
(* optional child: <<>> or <<child>>.                                      *)
(***************************************************************************)
EXTENDS Integers, Sequences, FiniteSets, TLC

\* ------------------------------------------------------------------ bounds
MaxLeaves == 3
MaxLen == 3

None == 0
NoDepth == -1

Names == <<"A", "B", "C", "D", "E", "F">>
Lens == 1..MaxLen
\* the root's own trailing :length, absent (0) or present
RootLens == {0, MaxLen}
\* the lengths of the trees the splice-only specifications start from: the
\* splice reads no length
SpliceLens == {1, MaxLen}

\* ------------------------------------------------------------ small helpers
Range(s) == {s[k] : k \in 1..Len(s)}

Min(a, b) == IF a <= b THEN a ELSE b

Take(s, k) == SubSeq(s, 1, Min(k, Len(s)))

IsLeafRec(r) == r.left_child = None /\ r.right_child = None

\* ------------------------------------------------- recursive trees (input)
LeafNode(nm, l) ==
    [name |-> nm, length |-> l, depth |-> NoDepth, left |-> <<>>, right |-> <<>>]

RECURSIVE Shapes(_, _)
\* every binary tree with k leaves named Names[lo+1..lo+k] in left-to-right
\* order, branch lengths still to be set
Shapes(k, lo) ==
    IF k = 1
    THEN {LeafNode(Names[lo + 1], 0)}
    ELSE UNION {
           {[name |-> "", length |-> 0, depth |-> NoDepth,
             left |-> <<a>>, right |-> <<b>>] :
               a \in Shapes(j, lo), b \in Shapes(k - j, lo + j)}
           : j \in 1..(k - 1)}

RECURSIVE NumNodes(_)
NumNodes(t) ==
    1 + (IF t.left = <<>> THEN 0 ELSE NumNodes(t.left[1]))
      + (IF t.right = <<>> THEN 0 ELSE NumNodes(t.right[1]))

RECURSIVE WithLengths(_, _, _)
\* the tree t with the branch length of its k-th node in pre-order set to
\* f[base + k]
WithLengths(t, f, base) ==
    [t EXCEPT !.length = f[base + 1],
              !.left = IF t.left = <<>> THEN <<>>
                       ELSE <<WithLengths(t.left[1], f, base + 1)>>,
              !.right = IF t.right = <<>> THEN <<>>
                        ELSE <<WithLengths(t.right[1], f,
                                 base + 1 + (IF t.left = <<>> THEN 0
                                             ELSE NumNodes(t.left[1])))>>]

RECURSIVE NumLeaves(_)
NumLeaves(t) ==
    IF t.left = <<>> /\ t.right = <<>> THEN 1
    ELSE (IF t.left = <<>> THEN 0 ELSE NumLeaves(t.left[1]))
       + (IF t.right = <<>> THEN 0 ELSE NumLeaves(t.right[1]))

\* ------------------------------------------------ newick_parser: Node passes
zero_root_length(t) == [t EXCEPT !.length = 0]

RECURSIVE assign_depths(_, _)
assign_depths(t, d) ==
    [t EXCEPT !.depth = d,
              !.left = IF t.left = <<>> THEN <<>>
                       ELSE <<assign_depths(t.left[1], d + t.left[1].length)>>,
              !.right = IF t.right = <<>> THEN <<>>
                        ELSE <<assign_depths(t.right[1], d + t.right[1].length)>>]

RECURSIVE depths_to_lengths(_, _)
depths_to_lengths(t, parent_depth) ==
    [t EXCEPT !.length = t.depth - parent_depth,
              !.left = IF t.left = <<>> THEN <<>>
                       ELSE <<depths_to_lengths(t.left[1], t.depth)>>,
              !.right = IF t.right = <<>> THEN <<>>
                        ELSE <<depths_to_lengths(t.right[1], t.depth)>>]

\* --------------------------------------------- newick_parser: the flat tree
RECURSIVE FlattenFrom(_, _, _)
\* the records of the subtree t, whose own index is base + 1 (pre-order)
FlattenFrom(t, parent, base) ==
    LET me == base + 1
        L  == IF t.left = <<>> THEN <<>> ELSE FlattenFrom(t.left[1], me, me)
        R  == IF t.right = <<>> THEN <<>>
              ELSE FlattenFrom(t.right[1], me, me + Len(L))
    IN <<[name |-> t.name, length |-> t.length, depth |-> t.depth,
          parent |-> parent,
          left_child |-> IF t.left = <<>> THEN None ELSE me + 1,
          right_child |-> IF t.right = <<>> THEN None ELSE me + Len(L) + 1]>>
       \o L \o R

to_flat_tree(t) == [nodes |-> FlattenFrom(t, None, 0), root |-> 1]

RECURSIVE Unflatten(_, _)
Unflatten(nodes, k) ==
    [name |-> nodes[k].name, length |-> nodes[k].length, depth |-> nodes[k].depth,
     left |-> IF nodes[k].left_child = None THEN <<>>
              ELSE <<Unflatten(nodes, nodes[k].left_child)>>,
     right |-> IF nodes[k].right_child = None THEN <<>>
               ELSE <<Unflatten(nodes, nodes[k].right_child)>>]

to_node(ft) == Unflatten(ft.nodes, ft.root)

RECURSIVE PreOrderFrom(_, _)
\* the indices visited by a pre-order walk over child links from k
PreOrderFrom(nodes, k) ==
    <<k>>
    \o (IF nodes[k].left_child = None THEN <<>>
        ELSE PreOrderFrom(nodes, nodes[k].left_child))
    \o (IF nodes[k].right_child = None THEN <<>>
        ELSE PreOrderFrom(nodes, nodes[k].right_child))

\* flat_tree.iter(TraversalOrder::PreOrder): the records in visiting order
iter(ft) ==
    LET ord == PreOrderFrom(ft.nodes, ft.root)
    IN [k \in 1..Len(ord) |-> ft.nodes[ord[k]]]


\* ------------------------------------------------------- main.rs: pruning
\* Does change_tree(flat_tree, index) abort?  (expect at line 27, unwrap at
\* lines 28, 29 and 31.)
change_tree_panics(nodes, index) ==
    \/ nodes[index].parent = None
    \/ nodes[nodes[index].parent].left_child = None
    \/ /\ nodes[nodes[index].parent].left_child = index
       /\ nodes[nodes[index].parent].right_child = None

\* change_tree without lines 43-49: the grandparent keeps pointing at the parent
change_tree_no_relink(nodes, index) ==
    LET parent_index == nodes[index].parent
        sister_index == IF nodes[parent_index].left_child = index
                        THEN nodes[parent_index].right_child
                        ELSE nodes[parent_index].left_child
        grandparent_index_opt == nodes[parent_index].parent
        n1 == [nodes EXCEPT ![parent_index].parent = None]
    IN [n1 EXCEPT ![sister_index].parent = grandparent_index_opt]

\* change_tree that empties the grandparent's slot instead of refilling it
change_tree_drop_slot(nodes, index) ==
    LET parent_index == nodes[index].parent
        sister_index == IF nodes[parent_index].left_child = index
                        THEN nodes[parent_index].right_child
                        ELSE nodes[parent_index].left_child
        grandparent_index_opt == nodes[parent_index].parent
        n1 == [nodes EXCEPT ![parent_index].parent = None]
        n2 == [n1 EXCEPT ![sister_index].parent = grandparent_index_opt]
    IN IF grandparent_index_opt # None
       THEN IF n2[grandparent_index_opt].left_child = parent_index
            THEN [n2 EXCEPT ![grandparent_index_opt].left_child = None]
            ELSE [n2 EXCEPT ![grandparent_index_opt].right_child = None]
       ELSE n2

\* change_tree that patches the sister's depth to the removed parent's
change_tree_patch_depth(nodes, index) ==
    LET parent_index == nodes[index].parent
        sister_index == IF nodes[parent_index].left_child = index
                        THEN nodes[parent_index].right_child
                        ELSE nodes[parent_index].left_child
        grandparent_index_opt == nodes[parent_index].parent
        n1 == [nodes EXCEPT ![parent_index].parent = None]
        n2 == [n1 EXCEPT ![sister_index].parent = grandparent_index_opt,
                         ![sister_index].depth = nodes[parent_index].depth]
    IN IF grandparent_index_opt # None
       THEN IF n2[grandparent_index_opt].left_child = parent_index
            THEN [n2 EXCEPT ![grandparent_index_opt].left_child = sister_index]
            ELSE [n2 EXCEPT ![grandparent_index_opt].right_child = sister_index]
       ELSE n2

\* change_tree without line 40: the sister keeps its old parent link
change_tree_keep_sister_parent(nodes, index) ==
    LET parent_index == nodes[index].parent
        sister_index == IF nodes[parent_index].left_child = index
                        THEN nodes[parent_index].right_child
                        ELSE nodes[parent_index].left_child
        grandparent_index_opt == nodes[parent_index].parent
        n2 == [nodes EXCEPT ![parent_index].parent = None]
    IN IF grandparent_index_opt # None
       THEN IF n2[grandparent_index_opt].left_child = parent_index
            THEN [n2 EXCEPT ![grandparent_index_opt].left_child = sister_index]
            ELSE [n2 EXCEPT ![grandparent_index_opt].right_child = sister_index]
       ELSE n2

change_tree(nodes, index) ==
    LET parent_index == nodes[index].parent
        sister_index == IF nodes[parent_index].left_child = index
                        THEN nodes[parent_index].right_child
                        ELSE nodes[parent_index].left_child
        grandparent_index_opt == nodes[parent_index].parent
        n1 == [nodes EXCEPT ![parent_index].parent = None]
        n2 == [n1 EXCEPT ![sister_index].parent = grandparent_index_opt]
    IN IF grandparent_index_opt # None
       THEN IF n2[grandparent_index_opt].left_child = parent_index
            THEN [n2 EXCEPT ![grandparent_index_opt].left_child = sister_index]
            ELSE [n2 EXCEPT ![grandparent_index_opt].right_child = sister_index]
       ELSE n2

find_all_leaves(ft) ==
    LET it == iter(ft)
    IN SelectSeq([k \in 1..Len(it) |-> k], LAMBDA k : IsLeafRec(it[k]))

\* Vec::sort_by(|a, b| b.1.partial_cmp(&a.1)): a stable sort, greatest depth
\* first; x goes after every element that does not compare greater than it
\* an unstable order: x goes before the elements it ties with
insert_by_depth_before_ties(acc, x) ==
    LET p == Cardinality({j \in 1..Len(acc) : acc[j][2] > x[2]})
    IN SubSeq(acc, 1, p) \o <<x>> \o SubSeq(acc, p + 1, Len(acc))

insert_by_depth(acc, x) ==
    LET p == Cardinality({j \in 1..Len(acc) : acc[j][2] >= x[2]})
    IN SubSeq(acc, 1, p) \o <<x>> \o SubSeq(acc, p + 1, Len(acc))

RECURSIVE sort_prefix(_, _)
sort_prefix(s, k) ==
    IF k = 0 THEN <<>> ELSE insert_by_depth(sort_prefix(s, k - 1), s[k])

sort_by_depth(s) == sort_prefix(s, Len(s))

\* take(nb_leaves - 1): one leaf too few
find_deepest_nodes_one_less(ft, nb) ==
    LET it == iter(ft)
        lv == SelectSeq([k \in 1..Len(it) |-> k], LAMBDA k : IsLeafRec(it[k]))
        leaves_with_depths == [k \in 1..Len(lv) |-> <<lv[k], it[lv[k]].depth>>]
        sorted == sort_by_depth(leaves_with_depths)
        top == Take(sorted, nb - 1)
    IN [k \in 1..Len(top) |-> top[k][1]]

find_deepest_nodes(ft, nb) ==
    LET it == iter(ft)
        lv == SelectSeq([k \in 1..Len(it) |-> k], LAMBDA k : IsLeafRec(it[k]))
        leaves_with_depths == [k \in 1..Len(lv) |-> <<lv[k], it[lv[k]].depth>>]
        sorted == sort_by_depth(leaves_with_depths)
        top == Take(sorted, nb)
    IN [k \in 1..Len(top) |-> top[k][1]]

leaves_to_be_removed(lv, sampled) ==
    SelectSeq(lv, LAMBDA leaf : leaf \notin Range(sampled))

RECURSIVE find_root_loop(_, _, _)
\* the while loop of find_root; on a parent cycle the loop never ends, which
\* is the result None once more steps were taken than there are records
find_root_loop(nodes, current_node, fuel) ==
    IF nodes[current_node].parent = None THEN current_node
    ELSE IF fuel = 0 THEN None
    ELSE find_root_loop(nodes, nodes[current_node].parent, fuel - 1)

\* `if let` for `while let`: one step up only
find_root_one_step(nodes, true_leaf) ==
    IF nodes[true_leaf].parent = None THEN true_leaf ELSE nodes[true_leaf].parent

find_root(nodes, true_leaf) == find_root_loop(nodes, true_leaf, Len(nodes))

RECURSIVE remove_all_unsampled(_, _)
\* the whole loop of remove_all_unsampled, for a list on which no call aborts
remove_all_unsampled(nodes, idxs) ==
    IF idxs = <<>> THEN nodes
    ELSE remove_all_unsampled(change_tree(nodes, Head(idxs)), Tail(idxs))

\* the original root's depth as the baseline
root_depth_zero(reconstructed) == 0

\* the baseline the driver hands to depths_to_lengths (lines 232-235)
root_depth(reconstructed) == reconstructed.depth

names_of(nodes, idxs) == [k \in 1..Len(idxs) |-> nodes[idxs[k]].name]

\* ------------------------------------------------------------------- state
VARIABLES pc, nb_leaves, node_tree, flat_tree, sampled_leaves, leaves,
          list_indexes, pos, reconstructed_tree, baseline,
          sampled_leaves_names, leaves_to_be_removed_names, written

vars == <<pc, nb_leaves, node_tree, flat_tree, sampled_leaves, leaves,
          list_indexes, pos, reconstructed_tree, baseline,
          sampled_leaves_names, leaves_to_be_removed_names, written>>

InputShapes == UNION {Shapes(k, 0) : k \in 1..MaxLeaves}

\* the parsed tree: any shape, any lengths
ParsedTree(lens) ==
    \E sh \in InputShapes : \E r \in RootLens :
        \E f \in [2..NumNodes(sh) -> lens] :
            node_tree = WithLengths(sh, (1 :> r) @@ f, 0)

Init ==
    /\ ParsedTree(Lens)
    /\ nb_leaves \in 0..(MaxLeaves + 1)
    /\ pc = "parsed"
    /\ flat_tree = [nodes |-> <<>>, root |-> None]
    /\ sampled_leaves = <<>>
    /\ leaves = <<>>
    /\ list_indexes = <<>>
    /\ pos = 1
    /\ reconstructed_tree = <<>>
    /\ baseline = NoDepth
    /\ sampled_leaves_names = <<>>
    /\ leaves_to_be_removed_names = <<>>
    /\ written = FALSE

\* lines 209-214: zero_root_length, assign_depths(0.0), to_flat_tree
Prepare ==
    /\ pc = "parsed"
    /\ node_tree' = assign_depths(zero_root_length(node_tree), 0)
    /\ flat_tree' = to_flat_tree(node_tree')
    /\ pc' = "flat"
    /\ UNCHANGED <<nb_leaves, sampled_leaves, leaves, list_indexes, pos,
                   reconstructed_tree, baseline, sampled_leaves_names,
                   leaves_to_be_removed_names, written>>

\* lines 216-221
Sample ==
    /\ pc = "flat"
    /\ sampled_leaves' = find_deepest_nodes(flat_tree, nb_leaves)
    /\ leaves' = find_all_leaves(flat_tree)
    /\ list_indexes' = leaves_to_be_removed(leaves', sampled_leaves')
    /\ pos' = 1
    /\ pc' = "removing"
    /\ UNCHANGED <<nb_leaves, node_tree, flat_tree, reconstructed_tree, baseline,
                   sampled_leaves_names, leaves_to_be_removed_names, written>>

\* one iteration of the loop of remove_all_unsampled (lines 64-66)
Splice ==
    /\ pc = "removing"
    /\ pos <= Len(list_indexes)
    /\ IF change_tree_panics(flat_tree.nodes, list_indexes[pos])
       THEN /\ pc' = "panic"
            /\ UNCHANGED <<flat_tree, pos>>
       ELSE /\ flat_tree' = [flat_tree EXCEPT
                               !.nodes = change_tree(flat_tree.nodes, list_indexes[pos])]
            /\ pos' = pos + 1
            /\ pc' = "removing"
    /\ UNCHANGED <<nb_leaves, node_tree, sampled_leaves, leaves, list_indexes,
                   reconstructed_tree, baseline, sampled_leaves_names,
                   leaves_to_be_removed_names, written>>

\* lines 224-226; sampled_leaves[0] on an empty vector aborts
Recover ==
    /\ pc = "removing"
    /\ pos > Len(list_indexes)
    /\ IF sampled_leaves = <<>>
       THEN /\ pc' = "panic"
            /\ UNCHANGED flat_tree
       ELSE /\ flat_tree' = [flat_tree EXCEPT
                               !.root = find_root(flat_tree.nodes, sampled_leaves[1])]
            /\ pc' = "rooted"
    /\ UNCHANGED <<nb_leaves, node_tree, sampled_leaves, leaves, list_indexes, pos,
                   reconstructed_tree, baseline, sampled_leaves_names,
                   leaves_to_be_removed_names, written>>

\* lines 228-255
Finish ==
    /\ pc = "rooted"
    /\ IF to_node(flat_tree).depth = NoDepth
       THEN /\ pc' = "error"
            /\ UNCHANGED <<reconstructed_tree, baseline, sampled_leaves_names,
                           leaves_to_be_removed_names, written>>
       ELSE /\ baseline' = root_depth(to_node(flat_tree))
            /\ reconstructed_tree' = depths_to_lengths(to_node(flat_tree), baseline')
            /\ written' = TRUE
            /\ sampled_leaves_names' = names_of(flat_tree.nodes, sampled_leaves)
            /\ leaves_to_be_removed_names' = names_of(flat_tree.nodes, list_indexes)
            /\ pc' = "done"
    /\ UNCHANGED <<nb_leaves, node_tree, flat_tree, sampled_leaves, leaves,
                   list_indexes, pos>>

Next == Prepare \/ Sample \/ Splice \/ Recover \/ Finish

Spec == Init /\ [][Next]_vars


\* ------------------------------------------- splices in an arbitrary order
\* The removal pass as a function of its inputs: any keep set of the
\* requested size, the removal set in any order.
Perms(seq) ==
    {p \in [1..Len(seq) -> Range(seq)] :
        \A a, b \in 1..Len(seq) : a # b => p[a] # p[b]}

InitShape ==
    /\ ParsedTree(SpliceLens)
    /\ nb_leaves \in 0..(MaxLeaves + 1)
    /\ pc = "parsed"
    /\ flat_tree = [nodes |-> <<>>, root |-> None]
    /\ sampled_leaves = <<>>
    /\ leaves = <<>>
    /\ list_indexes = <<>>
    /\ pos = 1
    /\ reconstructed_tree = <<>>
    /\ baseline = NoDepth
    /\ sampled_leaves_names = <<>>
    /\ leaves_to_be_removed_names = <<>>
    /\ written = FALSE

SampleAnyOrder ==
    /\ pc = "flat"
    /\ leaves' = find_all_leaves(flat_tree)
    /\ \E keep \in SUBSET Range(leaves') :
         /\ Cardinality(keep) = Min(nb_leaves, Len(leaves'))
         /\ sampled_leaves' = SelectSeq(leaves', LAMBDA l : l \in keep)
    /\ list_indexes' \in Perms(leaves_to_be_removed(leaves', sampled_leaves'))
    /\ pos' = 1
    /\ pc' = "removing"
    /\ UNCHANGED <<nb_leaves, node_tree, flat_tree, reconstructed_tree, baseline,
                   sampled_leaves_names, leaves_to_be_removed_names, written>>

NextPerm == Prepare \/ SampleAnyOrder \/ Splice \/ Recover \/ Finish

SpecPerm == InitShape /\ [][NextPerm]_vars

\* ------------------------------------- change_tree on an arbitrary argument
\* change_tree as a function of its inputs: any index of the flat tree, the
\* record's parent link as flattened or pointing at any other record.
CallChangeTree ==
    /\ pc = "flat"
    /\ \E index \in 1..Len(flat_tree.nodes) :
         /\ list_indexes' = <<index>>
         /\ \E p \in 1..Len(flat_tree.nodes) :
              flat_tree' = [flat_tree EXCEPT
                              !.nodes[index].parent =
                                  IF p = index THEN @ ELSE p]
    /\ pos' = 1
    /\ pc' = "removing"
    /\ UNCHANGED <<nb_leaves, node_tree, sampled_leaves, leaves,
                   reconstructed_tree, baseline, sampled_leaves_names,
                   leaves_to_be_removed_names, written>>

NextCall == Prepare \/ CallChangeTree \/ Splice

SpecCall == InitShape /\ [][NextCall]_vars


\* ============================================================ properties
\* the flat tree as flattened, before any splice (node_tree holds the
\* depth-assigned input once Prepare has run)
OrigNodes == to_flat_tree(node_tree).nodes

LeavesOf(nodes) == {k \in 1..Len(nodes) : IsLeafRec(nodes[k])}

AllLeaves == LeavesOf(OrigNodes)

total_leaves == Cardinality(AllLeaves)

\* the indices reachable from r through child links
Reach(nodes, r) == Range(PreOrderFrom(nodes, r))

ReachLeaves(nodes, r) == {k \in Reach(nodes, r) : IsLeafRec(nodes[k])}

Links(nodes, r) ==
    [k \in Reach(nodes, r) |->
        <<nodes[k].parent, nodes[k].left_child, nodes[k].right_child>>]

Pruned == pc \in {"rooted", "done"}

Sampled == pc \in {"removing", "rooted", "done", "panic"}

\* C1: with 1 <= n <= total_leaves, the tree reachable from flat_tree.root
\* after the removal pass and root recovery has exactly n leaves, they are
\* exactly the keep set, no removed leaf is strictly deeper than a kept one,
\* and the rebuilt recursive tree has n leaves as well.
C1_LeafCountConservation ==
    (Pruned /\ 1 <= nb_leaves /\ nb_leaves <= total_leaves) =>
        LET kept == ReachLeaves(flat_tree.nodes, flat_tree.root)
            orig == OrigNodes
        IN /\ Cardinality(kept) = nb_leaves
           /\ kept = Range(sampled_leaves)
           /\ Len(sampled_leaves) = nb_leaves
           /\ \A a \in LeavesOf(orig) \ kept : \A b \in kept :
                 orig[a].depth <= orig[b].depth
           /\ (pc = "done" => NumLeaves(reconstructed_tree) = nb_leaves)

C1_Witness ==
    /\ pc = "done"
    /\ nb_leaves = 2
    /\ total_leaves = 3
    /\ flat_tree.root # 1
    /\ NumLeaves(reconstructed_tree) = 2

\* C2: after any prefix of the removal pass, in any order, every record
\* reachable from the root recovered from the first kept leaf has no child or
\* two distinct children.
C2_BinaryPreserved ==
    (pc \in {"removing", "rooted", "done"} /\ sampled_leaves # <<>>) =>
        LET r == find_root(flat_tree.nodes, sampled_leaves[1])
        IN /\ r # None
           /\ \A k \in Reach(flat_tree.nodes, r) :
                \/ IsLeafRec(flat_tree.nodes[k])
                \/ /\ flat_tree.nodes[k].left_child # None
                   /\ flat_tree.nodes[k].right_child # None
                   /\ flat_tree.nodes[k].left_child # flat_tree.nodes[k].right_child

\* a splice under a grandparent has happened and more splices are to come
C2_Witness ==
    /\ pc = "removing"
    /\ pos = 2
    /\ Len(list_indexes) >= 2
    /\ sampled_leaves # <<>>
    /\ flat_tree.nodes[1].parent = None
    /\ flat_tree.nodes[1].left_child # OrigNodes[1].left_child

RECURSIVE LengthsFollowDepths(_)
\* every child's branch length is its depth minus its parent's depth
LengthsFollowDepths(t) ==
    /\ t.left # <<>> =>
         /\ t.left[1].length = t.left[1].depth - t.depth
         /\ LengthsFollowDepths(t.left[1])
    /\ t.right # <<>> =>
         /\ t.right[1].length = t.right[1].depth - t.depth
         /\ LengthsFollowDepths(t.right[1])

RECURSIVE LeafPaths(_, _)
\* <<name, sum of the branch lengths below the top node>> of every leaf
LeafPaths(t, acc) ==
    IF t.left = <<>> /\ t.right = <<>> THEN {<<t.name, acc>>}
    ELSE (IF t.left = <<>> THEN {}
          ELSE LeafPaths(t.left[1], acc + t.left[1].length))
         \cup
         (IF t.right = <<>> THEN {}
          ELSE LeafPaths(t.right[1], acc + t.right[1].length))

\* C3: no splice changes a depth, and in the output tree every non-root
\* branch length is depth(node) - depth(parent in the pruned tree) with the
\* depths assigned before pruning, the root's length is zero, and every kept
\* leaf lies at its original depth minus the new root's original depth.
C3_LengthsRederived ==
    LET orig == OrigNodes
    IN /\ Sampled =>
            \A k \in 1..Len(orig) : flat_tree.nodes[k].depth = orig[k].depth
       /\ pc = "done" =>
            /\ reconstructed_tree.length = 0
            /\ reconstructed_tree.depth = orig[flat_tree.root].depth
            /\ LengthsFollowDepths(reconstructed_tree)
            /\ LeafPaths(reconstructed_tree, 0) =
                 {<<orig[k].name, orig[k].depth - orig[flat_tree.root].depth>> :
                      k \in Range(sampled_leaves)}

\* a kept leaf hangs under another parent than before, so that its branch
\* length had to be rederived
C3_Witness ==
    /\ pc = "done"
    /\ \E k \in Range(sampled_leaves) :
          /\ flat_tree.nodes[k].parent \notin {None, OrigNodes[k].parent}
          /\ flat_tree.nodes[k].depth - flat_tree.nodes[flat_tree.nodes[k].parent].depth
               # OrigNodes[k].length
    /\ reconstructed_tree.left # <<>>

\* C4: with n >= total_leaves the removal list is empty, no splice happens,
\* the recovered root is the original root and the output tree is the
\* depth-assigned input (whose root length is zero).
C4_OverRequest ==
    (Sampled /\ nb_leaves >= total_leaves) =>
        /\ pc # "panic"
        /\ list_indexes = <<>>
        /\ pos = 1
        /\ Range(sampled_leaves) = AllLeaves
        /\ flat_tree.nodes = OrigNodes
        /\ Pruned => flat_tree.root = 1
        /\ pc = "done" => reconstructed_tree = node_tree

C4_Witness ==
    /\ pc = "done"
    /\ nb_leaves > total_leaves
    /\ total_leaves = 3
    /\ reconstructed_tree = node_tree

\* C5: a request with n = 0 ends as an error returned to the driver, never
\* as an abort, and writes nothing.
C5_ZeroRejected ==
    nb_leaves = 0 =>
        /\ pc # "panic"
        /\ pc # "done"
        /\ ~written

\* C7: whatever the order of the removal list, the pass does not abort, and
\* the recovered root and the links of every record reachable from it are
\* those the pass in traversal order produces.
C7_OrderIndependent ==
    sampled_leaves # <<>> =>
        /\ pc # "panic"
        /\ Pruned =>
             LET ref == remove_all_unsampled(
                            OrigNodes, leaves_to_be_removed(leaves, sampled_leaves))
                 refroot == find_root(ref, sampled_leaves[1])
             IN /\ flat_tree.root = refroot
                /\ Links(flat_tree.nodes, flat_tree.root) = Links(ref, refroot)

\* the removal list is not in traversal order and the original root is gone
C7_Witness ==
    /\ pc = "rooted"
    /\ Len(list_indexes) >= 2
    /\ list_indexes # leaves_to_be_removed(leaves, sampled_leaves)
    /\ flat_tree.root # 1

\* C8: flat_tree.root is assigned only by root recovery; after the removal
\* pass find_root ends at the same parentless record from every kept leaf,
\* and that record reaches every kept leaf and no removed leaf.
C8_RootRecovery ==
    /\ pc \in {"flat", "removing", "panic"} => flat_tree.root = 1
    /\ Pruned =>
         /\ flat_tree.root = find_root(flat_tree.nodes, sampled_leaves[1])
         /\ \A k \in Range(sampled_leaves) :
               /\ find_root(flat_tree.nodes, k) # None
               /\ find_root(flat_tree.nodes, k) = flat_tree.root
         /\ flat_tree.nodes[flat_tree.root].parent = None
         /\ Range(sampled_leaves) \subseteq Reach(flat_tree.nodes, flat_tree.root)
         /\ Range(list_indexes) \cap Reach(flat_tree.nodes, flat_tree.root) = {}

\* two removals on one path: the new root is two levels below the old one
C8_Witness ==
    /\ pc = "rooted"
    /\ Len(list_indexes) = 2
    /\ OrigNodes[flat_tree.root].parent \notin {None, 1}

\* C9 as stated: the baseline handed to depths_to_lengths is the depth of the
\* original root, 0.
C9_OriginalRootBaseline ==
    pc = "done" => baseline = OrigNodes[1].depth

\* C9 amended: the baseline is the pre-pruning depth of the recovered root,
\* which is 0 when the original root is still the root.
C9_RecoveredRootBaseline ==
    pc = "done" =>
        /\ baseline = OrigNodes[flat_tree.root].depth
        /\ flat_tree.root = 1 => baseline = 0

C9_Witness ==
    /\ pc = "done"
    /\ flat_tree.root # 1
    /\ baseline > 0

ScenarioTree ==
    [name |-> "", length |-> 0, depth |-> 0,
     left |-> <<[name |-> "A", length |-> 1, depth |-> 1,
                 left |-> <<>>, right |-> <<>>]>>,
     right |-> <<[name |-> "", length |-> 1, depth |-> 1,
                  left |-> <<[name |-> "B", length |-> 2, depth |-> 3,
                              left |-> <<>>, right |-> <<>>]>>,
                  right |-> <<[name |-> "C", length |-> 3, depth |-> 4,
                               left |-> <<>>, right |-> <<>>]>>]>>]

\* C10: the keep list is ordered by depth, greatest first, leaves of equal
\* depth in traversal order; a leaf is left out only if it is shallower than
\* every kept leaf or ties with the shallowest and was discovered later; the
\* removal list is in traversal order; the name lists follow the two lists;
\* (A:1,(B:2,C:3):1); with n = 2 gives sampled C, B and removed A.
C10_RankingOrder ==
    LET orig == OrigNodes
        all == LeavesOf(orig)
        kept == Range(sampled_leaves)
        d == [k \in 1..Len(orig) |-> orig[k].depth]
    IN /\ Sampled =>
            /\ Len(sampled_leaves) = Min(nb_leaves, Cardinality(all))
            /\ kept \subseteq all
            /\ \A a, b \in 1..Len(sampled_leaves) :
                  a < b =>
                    \/ d[sampled_leaves[a]] > d[sampled_leaves[b]]
                    \/ /\ d[sampled_leaves[a]] = d[sampled_leaves[b]]
                       /\ sampled_leaves[a] < sampled_leaves[b]
            /\ \A x \in all \ kept : \A y \in kept :
                  \/ d[x] < d[y]
                  \/ d[x] = d[y] /\ y < x
            /\ Range(list_indexes) = all \ kept
            /\ \A a, b \in 1..Len(list_indexes) :
                  a < b => list_indexes[a] < list_indexes[b]
       /\ pc = "done" =>
            /\ sampled_leaves_names =
                 [k \in 1..Len(sampled_leaves) |-> orig[sampled_leaves[k]].name]
            /\ leaves_to_be_removed_names =
                 [k \in 1..Len(list_indexes) |-> orig[list_indexes[k]].name]
            /\ (node_tree = ScenarioTree /\ nb_leaves = 2) =>
                 /\ sampled_leaves_names = <<"C", "B">>
                 /\ leaves_to_be_removed_names = <<"A">>

\* the scenario has run to its end
C10_Witness ==
    /\ pc = "done"
    /\ node_tree = ScenarioTree
    /\ nb_leaves = 2
    /\ sampled_leaves_names = <<"C", "B">>

\* index is not a leaf, or its parent has it in neither child slot
BadArgument(nodes, index) ==
    \/ ~IsLeafRec(nodes[index])
    \/ /\ nodes[index].parent # None
       /\ nodes[nodes[index].parent].left_child # index
       /\ nodes[nodes[index].parent].right_child # index

\* C6: a call of change_tree on an index that is not a leaf, or on a leaf its
\* parent does not record as a child, aborts and leaves the links alone.
C6_CorruptedInputAborts ==
    [][(pc = "removing" /\ pos <= Len(list_indexes)
          /\ BadArgument(flat_tree.nodes, list_indexes[pos]))
       => (pc' = "panic" /\ flat_tree' = flat_tree)]_vars

====
